---- MODULE Spec2Model ----
(***************************************************************************)
(* Model of the Streamlit detection front-end: the session controller of   *)
(* app.py (model load and source dispatch) and the three inference entry    *)
(* points of utils.py (image, video, webcam) together with the shared       *)
(* per-frame helper _display_detected_frames.                               *)
(*                                                                          *)
(* One behaviour is a sequence of script runs (Streamlit re-executes        *)
(* app.py top to bottom on every interaction).  Only the st.cache_resource  *)
(* cache of load_model survives from one run to the next.                   *)
(***************************************************************************)
EXTENDS Integers, FiniteSets, Sequences, TLC

\* ---------------------------------------------------------------- bounds
\* number of distinct model paths the sidebar offers
NumPaths == 2
\* number of script runs in one process lifetime
MaxRuns == 2
\* largest number of frames a video / camera delivers before read() fails
MaxFrames == 10

Paths == 1..NumPaths

\* config.SOURCES_LIST as used by the dispatch of app.py
SOURCES_LIST == <<"image", "video", "webcam">>

\* the value of a name that was never assigned
Unbound == 0

\* what the decoder / camera will deliver to this run:
\*   opens  - whether cv2.VideoCapture manages to open the source
\*   frames - number of reads that succeed
\*   tail   - why the read after the last frame fails
Media == [opens : BOOLEAN, frames : 0..MaxFrames, tail : {"eos", "error"}]
NoMedia == [opens |-> FALSE, frames |-> 0, tail |-> "eos"]

VARIABLES
    cache,        \* st.cache_resource store of load_model: path -> handle (0 = absent)
    built,        \* path -> number of YOLO(path) constructions that succeeded
    served,       \* path -> number of load_model(path) calls that returned a handle
    runs,         \* script runs started so far
    pc,           \* position of the running script
    model_path,   \* app.py: model_path
    model,        \* app.py: the global `model` (Unbound when the load raised)
    source,       \* app.py: source_selectbox
    source_file,  \* utils.py: source_img / source_video is truthy
    button,       \* utils.py: st.button("开始执行") returned True
    flag,         \* utils.py: flag = st.button("停止运行")
    media,        \* what the capture will deliver (environment)
    isOpened,     \* vid_cap.isOpened()
    opens,        \* cv2.VideoCapture(...) constructions in this run
    releases,     \* vid_cap.release() calls in this run
    reads,        \* vid_cap.read() calls that returned success in this run
    predicts,     \* model.predict(...) calls in this run
    updates,      \* st_frame.image(...) calls in this run
    slots,        \* st.empty() calls in this run
    shown,        \* st.image(...) calls of image mode: <<original, result>>
    errors,       \* st.error(...) calls in this run
    writes,       \* st.write(...) calls of the details fallback in this run
    exit          \* how the run left its inference entry point

vars == <<cache, built, served, runs, pc, model_path, model, source, source_file, button,
          flag, media, isOpened, opens, releases, reads, predicts, updates,
          slots, shown, errors, writes, exit>>

\* the variables of one run other than pc, model and errors
runInputs == <<source_file, button, flag, media>>
capture == <<isOpened, opens, releases, reads>>
display == <<updates, slots, shown, writes>>
process == <<cache, built, served, runs>>
selection == <<model_path, source>>

Init ==
    /\ cache = [p \in Paths |-> 0]
    /\ built = [p \in Paths |-> 0]
    /\ served = [p \in Paths |-> 0]
    /\ runs = 0
    /\ pc = "idle"
    /\ model_path = 1
    /\ model = Unbound
    /\ source = "image"
    /\ source_file = FALSE
    /\ button = FALSE
    /\ flag = FALSE
    /\ media = NoMedia
    /\ isOpened = FALSE
    /\ opens = 0
    /\ releases = 0
    /\ reads = 0
    /\ predicts = 0
    /\ updates = 0
    /\ slots = 0
    /\ shown = <<0, 0>>
    /\ errors = 0
    /\ writes = 0
    /\ exit = "none"

Terminal == pc \in {"done", "crashed"}

\* app.py 85-104, 116-119: a (re)run of the script starts with a fresh
\* namespace; the sidebar widgets deliver the model and the source.
StartRun ==
    /\ pc = "idle" \/ Terminal
    /\ runs < MaxRuns
    /\ runs' = runs + 1
    /\ \E p \in Paths : model_path' = p
    /\ \E i \in 1..Len(SOURCES_LIST) : source' = SOURCES_LIST[i]
    /\ model' = Unbound
    /\ source_file' = FALSE
    /\ button' = FALSE
    /\ flag' = FALSE
    /\ media' = NoMedia
    /\ isOpened' = FALSE
    /\ opens' = 0
    /\ releases' = 0
    /\ reads' = 0
    /\ predicts' = 0
    /\ updates' = 0
    /\ slots' = 0
    /\ shown' = <<0, 0>>
    /\ errors' = 0
    /\ writes' = 0
    /\ exit' = "none"
    /\ pc' = "load"
    /\ UNCHANGED <<cache, built, served>>

\* utils.py 34-46: load_model under @st.cache_resource.  `ok` says whether
\* YOLO(model_path) succeeds should it be called.  The result is the new
\* cache, the new construction counts and the handle returned (Unbound when
\* the call raised; a raised call stores nothing).
load_model_uncached(c, b, p, ok) ==
    IF ok
    THEN [cache |-> [c EXCEPT ![p] = p + NumPaths * b[p]],
          built |-> [b EXCEPT ![p] = b[p] + 1],
          handle |-> p + NumPaths * b[p]]
    ELSE [cache |-> c, built |-> b, handle |-> Unbound]

load_model(c, b, p, ok) ==
    IF c[p] # 0
    THEN [cache |-> c, built |-> b, handle |-> c[p]]
    ELSE IF ok
         THEN [cache |-> [c EXCEPT ![p] = p + NumPaths * b[p]],
               built |-> [b EXCEPT ![p] = b[p] + 1],
               handle |-> p + NumPaths * b[p]]
         ELSE [cache |-> c, built |-> b, handle |-> Unbound]

\* app.py 108-112: try: model = load_model(model_path) except: st.error(...)
LoadModel ==
    /\ pc = "load"
    /\ \E ok \in BOOLEAN :
         LET r == load_model(cache, built, model_path, ok) IN
           /\ cache' = r.cache
           /\ built' = r.built
           /\ model' = r.handle
           /\ served' = IF r.handle = Unbound
                        THEN served
                        ELSE [served EXCEPT ![model_path] = @ + 1]
           /\ errors' = IF r.handle = Unbound THEN errors + 1 ELSE errors
    /\ pc' = "dispatch"
    /\ UNCHANGED <<runs, selection, runInputs, capture, predicts, display, exit>>

\* app.py 121-128: the dispatch names `model`; when the load raised the name
\* was never assigned in this run and evaluating the argument raises
\* NameError outside every try block.
Dispatch ==
    /\ pc = "dispatch"
    /\ IF model = Unbound
       THEN /\ pc' = "crashed"
            /\ exit' = "NameError"
       ELSE /\ pc' = CASE source = SOURCES_LIST[1] -> "image"
                       [] source = SOURCES_LIST[2] -> "video"
                       [] source = SOURCES_LIST[3] -> "webcam"
            /\ exit' = exit
    /\ UNCHANGED <<process, selection, model, runInputs, capture, predicts,
                   display, errors>>

\* ------------------------------------------------------------ image mode
\* utils.py 55-72: the uploader, Image.open and the display of the original
\* in col1, then the start button.  Image.open is outside every try block.
infer_uploaded_image_unconditional ==
    /\ pc = "image"
    /\ \E up \in BOOLEAN, valid \in BOOLEAN, start \in BOOLEAN :
         /\ source_file' = up
         /\ IF ~up
            THEN /\ button' = FALSE
                 /\ shown' = shown
                 /\ pc' = "done"
                 /\ exit' = "idle"
            ELSE IF ~valid
            THEN /\ button' = FALSE
                 /\ shown' = shown
                 /\ pc' = "crashed"
                 /\ exit' = "ImageOpenError"
            ELSE /\ button' = start
                 /\ shown' = <<shown[1] + 1, shown[2]>>
                 /\ pc' = "image_predict"
                 /\ exit' = exit
    /\ UNCHANGED <<process, selection, model, flag, media, capture, predicts,
                   updates, slots, writes, errors>>

infer_uploaded_image ==
    /\ pc = "image"
    /\ \E up \in BOOLEAN, valid \in BOOLEAN, start \in BOOLEAN :
         /\ source_file' = up
         /\ IF ~up
            THEN /\ button' = FALSE
                 /\ shown' = shown
                 /\ pc' = "done"
                 /\ exit' = "idle"
            ELSE IF ~valid
            THEN /\ button' = FALSE
                 /\ shown' = shown
                 /\ pc' = "crashed"
                 /\ exit' = "ImageOpenError"
            ELSE /\ button' = start
                 /\ shown' = <<shown[1] + 1, shown[2]>>
                 /\ pc' = IF start THEN "image_predict" ELSE "done"
                 /\ exit' = IF start THEN exit ELSE "idle"
    /\ UNCHANGED <<process, selection, model, flag, media, capture, predicts,
                   updates, slots, writes, errors>>

\* utils.py 73-82: model.predict on the uploaded image and the display of
\* the plotted result in col2.  Neither call is inside a try block.
ImagePredict ==
    /\ pc = "image_predict"
    /\ predicts' = predicts + 1
    /\ \E raises \in BOOLEAN :
         IF raises
         THEN /\ pc' = "crashed"
              /\ exit' = "PredictError"
              /\ shown' = shown
         ELSE /\ pc' = "image_details"
              /\ exit' = exit
              /\ shown' = <<shown[1], shown[2] + 1>>
    /\ UNCHANGED <<process, selection, model, runInputs, capture, updates,
                   slots, writes, errors>>

\* utils.py 83-89: the expander with the boxes; only this part is guarded,
\* and its handler writes the exception with st.write.
ImageDetails ==
    /\ pc = "image_details"
    /\ \E raises \in BOOLEAN :
         writes' = IF raises THEN writes + 2 ELSE writes
    /\ pc' = "done"
    /\ exit' = "exhausted"
    /\ UNCHANGED <<process, selection, model, runInputs, capture, predicts,
                   updates, slots, shown, errors>>

\* ------------------------------------------------------------ video mode
\* utils.py 120-121 and 141-142: except Exception as e: st.error(...).
\* The handler reports and returns; it does not touch vid_cap.
LoopExcept ==
    /\ errors' = errors + 1
    /\ pc' = "done"
    /\ exit' = "exception"

\* utils.py 98-106: the uploader, st.video and the start button.
infer_uploaded_video ==
    /\ pc = "video"
    /\ \E up \in BOOLEAN, start \in BOOLEAN :
         /\ source_file' = up
         /\ button' = (up /\ start)
         /\ pc' = IF up /\ start THEN "video_open" ELSE "done"
         /\ exit' = IF up /\ start THEN exit ELSE "idle"
    /\ UNCHANGED <<process, selection, model, flag, media, capture, predicts,
                   display, errors>>

\* utils.py 108-112: the temporary copy, cv2.VideoCapture(tfile.name) and
\* st.empty().  Writing the copy can raise before any capture exists, which
\* unwinds to the except clause; otherwise the decoder decides here whether
\* the file opens.
VideoOpen ==
    /\ pc = "video_open"
    /\ \E raises \in BOOLEAN :
         IF raises
         THEN /\ LoopExcept
              /\ UNCHANGED <<media, isOpened, opens, slots>>
         ELSE /\ \E m \in Media :
                   /\ (~m.opens => m.frames = 0 /\ m.tail = "error")
                   /\ media' = m
                   /\ isOpened' = m.opens
              /\ opens' = opens + 1
              /\ slots' = slots + 1
              /\ pc' = "video_loop"
              /\ UNCHANGED <<errors, exit>>
    /\ UNCHANGED <<process, selection, model, source_file, button, flag,
                   releases, reads, predicts, updates, shown, writes>>

\* utils.py 113: while vid_cap.isOpened()
VideoLoop ==
    /\ pc = "video_loop"
    /\ IF isOpened
       THEN /\ pc' = "video_read"
            /\ exit' = exit
       ELSE /\ pc' = "done"
            /\ exit' = "not_opened"
    /\ UNCHANGED <<process, selection, model, runInputs, capture, predicts,
                   display, errors>>

\* utils.py 114-119: success, image = vid_cap.read(); on failure release
\* and break, whatever made the read fail.
VideoRead_break_only ==
    /\ pc = "video_read"
    /\ IF reads < media.frames
       THEN /\ reads' = reads + 1
            /\ pc' = "display_predict"
            /\ UNCHANGED <<isOpened, releases, exit>>
       ELSE /\ pc' = "done"
            /\ exit' = "read_failed"
            /\ UNCHANGED <<isOpened, releases, reads>>
    /\ UNCHANGED <<process, selection, model, runInputs, opens, predicts,
                   display, errors>>

VideoRead ==
    /\ pc = "video_read"
    /\ IF reads < media.frames
       THEN /\ reads' = reads + 1
            /\ pc' = "display_predict"
            /\ UNCHANGED <<isOpened, releases, exit>>
       ELSE /\ releases' = releases + 1
            /\ isOpened' = FALSE
            /\ pc' = "done"
            /\ exit' = "read_failed"
            /\ reads' = reads
    /\ UNCHANGED <<process, selection, model, runInputs, opens, predicts,
                   display, errors>>

\* ----------------------------------------------------------- webcam mode
\* utils.py 131-133: flag = st.button(...), cv2.VideoCapture(0), st.empty().
\* The camera decides here whether it opens and when it will drop out.
infer_uploaded_webcam ==
    /\ pc = "webcam"
    /\ \E f \in BOOLEAN : flag' = f
    /\ \E m \in Media :
         /\ m.tail = "error"
         /\ (~m.opens => m.frames = 0)
         /\ media' = m
         /\ isOpened' = m.opens
    /\ opens' = opens + 1
    /\ slots' = slots + 1
    /\ pc' = "webcam_loop"
    /\ UNCHANGED <<process, selection, model, source_file, button, releases,
                   reads, predicts, updates, shown, writes, errors, exit>>

\* utils.py 134: while not flag.  flag is the local assigned once above.
WebcamLoop ==
    /\ pc = "webcam_loop"
    /\ IF ~flag
       THEN /\ pc' = "webcam_read"
            /\ exit' = exit
       ELSE /\ pc' = "done"
            /\ exit' = "flag"
    /\ UNCHANGED <<process, selection, model, runInputs, capture, predicts,
                   display, errors>>

\* utils.py 135-140: success, image = vid_cap.read(); on failure release
\* and break.
WebcamRead ==
    /\ pc = "webcam_read"
    /\ IF reads < media.frames
       THEN /\ reads' = reads + 1
            /\ pc' = "display_predict"
            /\ UNCHANGED <<isOpened, releases, exit>>
       ELSE /\ releases' = releases + 1
            /\ isOpened' = FALSE
            /\ pc' = "done"
            /\ exit' = "read_failed"
            /\ reads' = reads
    /\ UNCHANGED <<process, selection, model, runInputs, opens, predicts,
                   display, errors>>

\* ------------------------------------------- _display_detected_frames
\* utils.py 21-24: resize and model.predict.  An exception raised here
\* unwinds to the except clause of the calling loop.
DisplayPredict ==
    /\ pc = "display_predict"
    /\ predicts' = predicts + 1
    /\ \E raises \in BOOLEAN :
         IF raises
         THEN LoopExcept
         ELSE /\ pc' = "display_image"
              /\ UNCHANGED <<errors, exit>>
    /\ UNCHANGED <<process, selection, model, runInputs, capture, display>>

\* utils.py 27-32: plot and st_frame.image on the slot of the caller, then
\* back to the loop test of the caller.
DisplayImage_fresh_slot ==
    /\ pc = "display_image"
    /\ updates' = updates + 1
    /\ slots' = slots + 1
    /\ pc' = IF source = SOURCES_LIST[2] THEN "video_loop" ELSE "webcam_loop"
    /\ UNCHANGED <<process, selection, model, runInputs, capture, predicts,
                   shown, writes, errors, exit>>

DisplayImage ==
    /\ pc = "display_image"
    /\ updates' = updates + 1
    /\ pc' = IF source = SOURCES_LIST[2] THEN "video_loop" ELSE "webcam_loop"
    /\ UNCHANGED <<process, selection, model, runInputs, capture, predicts,
                   slots, shown, writes, errors, exit>>

Next ==
    \/ StartRun
    \/ LoadModel
    \/ Dispatch
    \/ infer_uploaded_image
    \/ ImagePredict
    \/ ImageDetails
    \/ infer_uploaded_video
    \/ VideoOpen
    \/ VideoLoop
    \/ VideoRead
    \/ infer_uploaded_webcam
    \/ WebcamLoop
    \/ WebcamRead
    \/ DisplayPredict
    \/ DisplayImage

Spec == Init /\ [][Next]_vars
\* ================================================================ claims
\* The frame-source state of section 4.3, read off the position of the
\* script and the way the run left its entry point.
FrameSourceState ==
    IF pc \in {"idle", "load", "dispatch", "image", "video", "webcam"}
    THEN "IDLE"
    ELSE IF ~Terminal
    THEN "RUNNING"
    ELSE CASE exit = "idle" -> "IDLE"
           [] exit = "exhausted" -> "EXHAUSTED"
           [] exit = "read_failed" /\ media.tail = "eos" -> "EXHAUSTED"
           [] exit = "flag" -> "STOPPED"
           [] OTHER -> "ERROR"

InVideo == source = "video" /\ opens = 1
InWebcam == source = "webcam" /\ opens = 1

\* C1: on every exit path of a video or webcam run every capture handle
\* that cv2.VideoCapture opened has been released: the release calls match
\* the constructions and no handle is left open.
C1_ReleaseMatchesOpen ==
    (Terminal /\ source \in {"video", "webcam"} /\ media.opens)
        => (releases = opens /\ ~isOpened)

\* C2: a webcam run that sees the stop signal ends in STOPPED having
\* processed at most one more frame and having released the device exactly
\* once.
C2_StopReleasesOnce ==
    (InWebcam /\ media.opens /\ Terminal /\ flag)
        => (FrameSourceState = "STOPPED" /\ reads <= 1 /\ releases = 1)

\* C3: a video the decoder opens, with N decodable frames, no inference
\* failure: never more than N inference calls, and the run ends in
\* EXHAUSTED after exactly N inference calls with exactly one release.
C3_VideoExhausts ==
    (InVideo /\ media.opens /\ media.tail = "eos" /\ exit # "exception")
        => /\ predicts <= media.frames
           /\ reads <= media.frames
           /\ releases <= 1
           /\ pc # "crashed"
           /\ (pc = "done" => /\ predicts = media.frames
                              /\ FrameSourceState = "EXHAUSTED"
                              /\ releases = 1
                              /\ ~isOpened)

C3_Witness ==
    /\ InVideo /\ media.opens /\ media.tail = "eos" /\ exit # "exception"
    /\ pc = "done"
    /\ media.frames = 3
    /\ predicts = 3
    /\ releases = 1

\* C4: when load_model fails the error is reported exactly once, no
\* inference call is made and nothing further escapes uncaught in that run.
C4_LoadFailureContained ==
    (pc \notin {"idle", "load"} /\ model = Unbound)
        => (errors = 1 /\ predicts = 0 /\ pc # "crashed")

\* C5: a read failure that is not end-of-stream releases the capture and
\* reports an error in-page.
C5_ReadErrorReported ==
    (pc = "done" /\ exit = "read_failed" /\ media.tail = "error")
        => (releases = 1 /\ errors >= 1)

\* C6: a video the decoder cannot open is reported in-page, causes no
\* inference call, and its handle is released.
C6_OpenFailureReported ==
    (InVideo /\ Terminal /\ ~media.opens)
        => (errors >= 1 /\ predicts = 0 /\ releases = opens)

\* C7: in image mode an inference call that raises is caught and surfaced
\* in-page; no exception escapes infer_uploaded_image.
C7_ImageInferenceErrorCaught ==
    (source = "image" /\ Terminal /\ predicts = 1 /\ shown[2] = 0)
        => (pc = "done" /\ errors + writes >= 1)

\* C8: load_model constructs the model at most once per path, every call
\* that returns a handle for a path returns the cached one, distinct paths
\* hold distinct handles, and a cached handle is never replaced.
C8_CacheState ==
    /\ \A p \in Paths :
         /\ built[p] <= 1
         /\ (served[p] > 0 => built[p] = 1 /\ cache[p] # 0)
    /\ \A p, q \in Paths :
         (p # q /\ cache[p] # 0 /\ cache[q] # 0) => cache[p] # cache[q]
    /\ (pc \notin {"idle", "load"} /\ model # Unbound) => model = cache[model_path]

C8_CacheStable ==
    \A p \in Paths : cache[p] # 0 => cache'[p] = cache[p]

C8_LoadOnce == [](C8_CacheState) /\ [][C8_CacheStable]_vars

C8_Witness ==
    /\ pc = "dispatch"
    /\ served[model_path] = 2
    /\ built[model_path] = 1
    /\ model = cache[model_path]

\* C9: image mode never loops: at most one inference call and one display
\* per slot; a completed run with an uploaded image and start pressed made
\* exactly one inference call and showed the pair; without an upload or
\* without start no inference call is made.
C9_ImageSingleShot ==
    source = "image"
        => /\ predicts <= 1
           /\ shown[1] <= 1
           /\ shown[2] <= 1
           /\ (predicts > 0 => source_file /\ button)
           /\ (Terminal /\ ~(source_file /\ button) => predicts = 0 /\ shown[2] = 0)
           /\ (pc = "done" /\ source_file /\ button
                 => /\ predicts = 1
                    /\ shown = <<1, 1>>
                    /\ FrameSourceState = "EXHAUSTED")

C9_Witness ==
    /\ source = "image"
    /\ pc = "done"
    /\ source_file /\ button
    /\ predicts = 1
    /\ shown = <<1, 1>>

\* C10: in the video and webcam loops a frame is read only when every
\* earlier frame has been inferred and displayed, each frame overwrites the
\* one slot of the run, and a video read to its end without failure shows
\* as many updates as it has frames, ends in EXHAUSTED and reports no error.
C10_SerialFrames ==
    source \in {"video", "webcam"}
        => /\ slots <= 1
           /\ updates <= predicts
           /\ predicts <= reads
           /\ reads <= updates + 1
           /\ (pc \in {"video_loop", "video_read", "webcam_loop", "webcam_read"}
                 => updates = reads)
           /\ (pc = "display_predict" => predicts = updates /\ reads = updates + 1)
           /\ (pc = "display_image" => predicts = reads /\ reads = updates + 1)
           /\ (updates > 0 => slots = 1)
           /\ (pc = "done" /\ InVideo /\ media.opens /\ media.tail = "eos"
                           /\ exit # "exception"
                 => /\ updates = media.frames
                    /\ errors = 0
                    /\ FrameSourceState = "EXHAUSTED")

C10_Witness ==
    /\ InVideo /\ pc = "done"
    /\ media.opens /\ media.tail = "eos" /\ media.frames = 10
    /\ updates = 10
    /\ slots = 1
    /\ errors = 0
    /\ FrameSourceState = "EXHAUSTED"
====
